---- MODULE Spec2Model ----
(***************************************************************************)
(* RustFin (src/main.rs): startup fetch and decoding of the inflation      *)
(* feed, construction of MyApp, and the eframe update callback (sliders,   *)
(* "Recalcular Previsoes" button, forecast list).                          *)
(*                                                                         *)
(* Texts are sequences of one-character strings.  An f64 is modelled by    *)
(* its exact decimal value [class, neg, mant, exp] = (-1)^neg*mant*10^exp  *)
(* with trailing zeros of mant removed, or by the classes "nan" / "inf";   *)
(* for the short literals used here distinct decimal values are distinct   *)
(* doubles.  A Result is [tag |-> "Ok" | "Err" | "Panic", ...].            *)
(***************************************************************************)
EXTENDS Integers, Sequences, FiniteSets, TLC

\* ------------------------------------------------------------------ bounds
MaxRecords == 2

\* ------------------------------------------------------- program constants
SliderMin == 0
SliderMax == 10
InitialOrder == 1
Horizon == 150

\* ----------------------------------------------------------------- results
Ok(v) == [tag |-> "Ok", val |-> v]
Err(e) == [tag |-> "Err", err |-> e]
Panic(m) == [tag |-> "Panic", msg |-> m]

\* Result::unwrap: an Err becomes a panic.
Unwrap(r) == IF r.tag = "Err" THEN Panic(<<"unwrap", r.err>>) ELSE r

\* ------------------------------------------------------ str::parse::<f64>
Digits == <<"0", "1", "2", "3", "4", "5", "6", "7", "8", "9">>

IsDigit(c) == \E n \in 1..10 : Digits[n] = c

DigitVal(c) == (CHOOSE n \in 1..10 : Digits[n] = c) - 1

Lower(c) ==
    CASE c = "I" -> "i" [] c = "N" -> "n" [] c = "F" -> "f" [] c = "A" -> "a"
      [] c = "T" -> "t" [] c = "Y" -> "y" [] c = "E" -> "e" [] OTHER -> c

LowerText(s) == [i \in 1..Len(s) |-> Lower(s[i])]

\* Index of the first position >= i of s that holds no digit.
RECURSIVE SkipDigits(_, _)
SkipDigits(s, i) ==
    IF i <= Len(s) /\ IsDigit(s[i]) THEN SkipDigits(s, i + 1) ELSE i

\* Value of the digit string s[i..j-1], continuing from acc.
RECURSIVE DigitsValue(_, _, _, _)
DigitsValue(s, i, j, acc) ==
    IF i >= j THEN acc
    ELSE IF IsDigit(s[i]) THEN DigitsValue(s, i + 1, j, 10 * acc + DigitVal(s[i]))
    ELSE DigitsValue(s, i + 1, j, acc)

RECURSIVE Normalize(_, _, _)
Normalize(neg, mant, exp) ==
    IF mant = 0 THEN [class |-> "finite", neg |-> neg, mant |-> 0, exp |-> 0]
    ELSE IF mant % 10 = 0 THEN Normalize(neg, mant \div 10, exp + 1)
    ELSE [class |-> "finite", neg |-> neg, mant |-> mant, exp |-> exp]

NaN == [class |-> "nan"]
Infinity(neg) == [class |-> "inf", neg |-> neg]

InvalidFloat == Err("invalid float literal")

\* The digits of the exponent start at ed and must reach the end of s.
ParseExpDigits(s, ed, eNeg, neg, mant, nFrac) ==
    IF SkipDigits(s, ed) = ed \/ SkipDigits(s, ed) # Len(s) + 1 THEN InvalidFloat
    ELSE IF eNeg
      THEN Ok(Normalize(neg, mant, 0 - DigitsValue(s, ed, Len(s) + 1, 0) - nFrac))
    ELSE Ok(Normalize(neg, mant, DigitsValue(s, ed, Len(s) + 1, 0) - nFrac))

\* What follows the mantissa at i2: nothing, or 'e' / 'E' and an exponent.
ParseExponent(s, i2, neg, mant, nFrac) ==
    IF i2 = Len(s) + 1 THEN Ok(Normalize(neg, mant, 0 - nFrac))
    ELSE IF s[i2] \notin {"e", "E"} THEN InvalidFloat
    ELSE IF i2 + 1 <= Len(s) /\ s[i2 + 1] \in {"+", "-"}
      THEN ParseExpDigits(s, i2 + 2, s[i2 + 1] = "-", neg, mant, nFrac)
    ELSE ParseExpDigits(s, i2 + 1, FALSE, neg, mant, nFrac)

\* The fraction: i1 is the first position after the integer digits.
ParseFraction(s, b, i1, neg) ==
    IF i1 <= Len(s) /\ s[i1] = "."
      THEN IF SkipDigits(s, i1 + 1) - b = 1 THEN InvalidFloat
           ELSE ParseExponent(s, SkipDigits(s, i1 + 1), neg,
                              DigitsValue(s, b, SkipDigits(s, i1 + 1), 0),
                              SkipDigits(s, i1 + 1) - (i1 + 1))
    ELSE IF i1 = b THEN InvalidFloat
    ELSE ParseExponent(s, i1, neg, DigitsValue(s, b, i1, 0), 0)

\* The literal after the sign, starting at b.
ParseUnsigned(s, b, neg) ==
    IF LowerText(SubSeq(s, b, Len(s)))
         \in {<<"i", "n", "f">>, <<"i", "n", "f", "i", "n", "i", "t", "y">>}
      THEN Ok(Infinity(neg))
    ELSE IF LowerText(SubSeq(s, b, Len(s))) = <<"n", "a", "n">> THEN Ok(NaN)
    ELSE ParseFraction(s, b, SkipDigits(s, b), neg)

ParseF64(s) ==
    IF Len(s) = 0 THEN Err("cannot parse float from empty string")
    ELSE IF s[1] \in {"+", "-"} THEN ParseUnsigned(s, 2, s[1] = "-")
    ELSE ParseUnsigned(s, 1, FALSE)

\* string_to_f64 with a default in place of the error.
string_to_f64_or_default(s) ==
    IF ParseF64(s).tag = "Ok" THEN ParseF64(s) ELSE Ok(Normalize(FALSE, 0, 0))

\* map_err(serde::de::Error::custom).
Custom(r) == IF r.tag = "Err" THEN Err(<<"custom", r.err>>) ELSE r

string_to_f64(s) == Custom(ParseF64(s))

\* ------------------------------------------------------------ the provider
\* Value fields a record of the feed may carry: "2.5", "-1e1", "NaN",
\* "", "x1", "1,5", "." and "1e".
ValueTexts ==
    { <<"2", ".", "5">>, <<"-", "1", "e", "1">>, <<"N", "a", "N">>,
      <<>>, <<"x", "1">>, <<"1", ",", "5">>, <<".">>, <<"1", "e">> }

\* The provider is asked for sortOrder=desc: record i of n carries day n-i+1.
Feeds ==
    UNION { { [i \in 1..n |-> [date |-> n - i + 1, value |-> t[i]]] :
                t \in [1..n -> ValueTexts] } : n \in 0..MaxRecords }

Worlds ==
    { w \in [API_TOKEN : BOOLEAN, URL_BASE : BOOLEAN, transport : BOOLEAN,
             body : Feeds, display : BOOLEAN] :
        (~w.transport => w.body = <<>>) }

\* response.json::<InflationRaw>(): every record's value goes through
\* string_to_f64; the first failure fails the whole decoding.
RECURSIVE DecodeRecords(_, _, _)
RECURSIVE DecodeRecord(_, _, _, _)
\* Record i with v the outcome of string_to_f64 on its value field.
DecodeRecord(body, i, acc, v) ==
    IF v.tag = "Ok"
      THEN DecodeRecords(body, i + 1,
               Append(acc, [date |-> body[i].date, value |-> v.val]))
    ELSE v

DecodeRecords(body, i, acc) ==
    IF i > Len(body) THEN Ok(acc)
    ELSE DecodeRecord(body, i, acc, string_to_f64(body[i].value))

\* response.json(): a failure of serde surfaces as a decode error.
Json(r) ==
    IF r.tag = "Ok" THEN Ok([inflation |-> r.val]) ELSE Err(<<"decode", r.err>>)

InflationRaw(body) == Json(DecodeRecords(body, 1, <<>>))

get_historical_inflation(w) ==
    IF ~w.API_TOKEN THEN Panic("API_TOKEN not found")
    ELSE IF ~w.URL_BASE THEN Panic("URL_BASE not found")
    ELSE IF ~w.transport THEN Err("reqwest")
    ELSE InflationRaw(w.body)

\* Number of GET requests get_historical_inflation sends.
Requests(w) == IF w.API_TOKEN /\ w.URL_BASE THEN 1 ELSE 0

\* make_historical_array after the ? on the outcome r of the fetch.
Inflation(r) == IF r.tag = "Ok" THEN Ok(r.val.inflation) ELSE r

make_historical_array(w) == Inflation(get_historical_inflation(w))

\* The loop stopping one item early.
RECURSIVE PushValuesShort(_, _, _)
PushValuesShort(items, i, acc) ==
    IF i >= Len(items) THEN acc
    ELSE PushValuesShort(items, i + 1, Append(acc, [value |-> items[i].value]))

\* The for loop of get_historical_data: one push per item, in feed order.
RECURSIVE PushValues(_, _, _)
PushValues(items, i, acc) ==
    IF i > Len(items) THEN acc
    ELSE PushValues(items, i + 1, Append(acc, [value |-> items[i].value]))

\* get_historical_data after the ? on the outcome r of make_historical_array.
Values(r) == IF r.tag = "Ok" THEN Ok(PushValues(r.val, 1, <<>>)) ELSE r

get_historical_data(w) == Values(make_historical_array(w))

\* ------------------------------------------------------------------- MyApp
Construct(vals) ==
    Ok([historical |-> vals, forecast |-> <<>>, values |-> vals,
        predictions |-> <<>>, p |-> InitialOrder, d |-> InitialOrder,
        q |-> InitialOrder])

\* MyApp::new from the unwrapped outcome r of get_historical_data on.
Collect(r) ==
    IF r.tag = "Ok" THEN Construct([i \in 1..Len(r.val) |-> r.val[i].value])
    ELSE r

MyApp_new(w) == Collect(Unwrap(get_historical_data(w)))

\* ------------------------------------------------------------- the engine
\* Steps of run_arima_model that can fail, "none" when every step succeeds.
FitFaults ==
    { "none", "import_statsmodels", "import_numpy", "numpy_array",
      "ARIMA", "fit", "forecast", "extract" }

\* The forecast statsmodels returns is an uninterpreted function of the
\* series and the order.  A Vec<f64> of forecast values is written as a
\* sequence of runs: [series, order, first, last] stands for the points
\* first..last of the forecast fitted on series with order, so the vector
\* forecast(150) returns is the single run 1..Horizon.
ArimaForecast(vals, p_arg, d_arg, q_arg) ==
    << [series |-> vals, order |-> <<p_arg, d_arg, q_arg>>,
        first |-> 1, last |-> Horizon] >>

\* Number of f64 values a vector of runs holds.
RECURSIVE VecLen(_)
VecLen(v) ==
    IF v = <<>> THEN 0 ELSE (v[1].last - v[1].first + 1) + VecLen(Tail(v))

run_arima_model(vals, p_arg, d_arg, q_arg, fault) ==
    IF fault = "import_statsmodels"
      THEN Panic("Erro ao importar statsmodels.tsa.arima.model")
    ELSE IF fault = "import_numpy" THEN Panic("Erro ao importar numpy")
    ELSE IF fault = "numpy_array" THEN Panic("Erro ao criar o array numpy")
    ELSE IF fault \in {"ARIMA", "fit", "forecast", "extract"} THEN Err(fault)
    ELSE Ok(ArimaForecast(vals, p_arg, d_arg, q_arg))

\* egui::Slider::new(&mut x, 0..=10): the value set is kept inside the range.
Slider(v) ==
    IF v < SliderMin THEN SliderMin ELSE IF v > SliderMax THEN SliderMax ELSE v

\* Values a slider is moved to.
SliderInputs == {0, 1, 10, 11}

\* ------------------------------------------------------------------- state
VARIABLES
    pc,           \* "boot", "running", "aborted" (panic in main),
                  \* "exited" (run_native failed), "crashed" (panic in update)
    world,        \* environment variables, provider answer, display
    fetches,      \* GET requests sent so far
    historical, forecast, values, predictions, p, d, q,    \* fields of MyApp
    lastFit,      \* <<>> or <<arguments of the latest run_arima_model call>>
    event         \* what the latest step handled

vars ==
    << pc, world, fetches, historical, forecast, values, predictions, p, d, q,
       lastFit, event >>

Init ==
    /\ pc = "boot"
    /\ world \in Worlds
    /\ fetches = 0
    /\ historical = <<>>
    /\ forecast = <<>>
    /\ values = <<>>
    /\ predictions = <<>>
    /\ p = 0
    /\ d = 0
    /\ q = 0
    /\ lastFit = <<>>
    /\ event = "none"

\* main from the MyApp value on: run_native shows the window or fails.
Launch(app) ==
    /\ historical' = app.historical
    /\ forecast' = app.forecast
    /\ values' = app.values
    /\ predictions' = app.predictions
    /\ p' = app.p
    /\ d' = app.d
    /\ q' = app.q
    /\ pc' = IF world.display THEN "running" ELSE "exited"

\* main going on with an empty series when MyApp::new() has no data.
StartupOrEmpty(r) ==
    IF r.tag = "Ok" THEN Launch(r.val) ELSE Launch(Construct(<<>>).val)

\* main with r the outcome of MyApp::new().await: the unwrap() in MyApp::new
\* and the expect()s below it end the process before run_native is reached.
Startup(r) ==
    IF r.tag = "Ok" THEN Launch(r.val)
    ELSE /\ pc' = "aborted"
         /\ UNCHANGED << historical, forecast, values, predictions, p, d, q >>

Main ==
    /\ pc = "boot"
    /\ fetches' = fetches + Requests(world)
    /\ Startup(MyApp_new(world))
    /\ event' = "main"
    /\ UNCHANGED << world, lastFit >>

\* A slider frame that also drops the forecast of the previous order.
SliderPClears(v) ==
    /\ pc = "running"
    /\ p' = Slider(v)
    /\ predictions' = <<>>
    /\ event' = "slider"
    /\ UNCHANGED << pc, world, fetches, historical, forecast, values,
                    d, q, lastFit >>

\* update, frames in which a slider is moved.
SliderP(v) ==
    /\ pc = "running"
    /\ p' = Slider(v)
    /\ event' = "slider"
    /\ UNCHANGED << pc, world, fetches, historical, forecast, values,
                    predictions, d, q, lastFit >>

SliderD(v) ==
    /\ pc = "running"
    /\ d' = Slider(v)
    /\ event' = "slider"
    /\ UNCHANGED << pc, world, fetches, historical, forecast, values,
                    predictions, p, q, lastFit >>

SliderQ(v) ==
    /\ pc = "running"
    /\ q' = Slider(v)
    /\ event' = "slider"
    /\ UNCHANGED << pc, world, fetches, historical, forecast, values,
                    predictions, p, d, lastFit >>

\* update, a frame in which "Recalcular Previsoes" is clicked.
\* The result appended to the stored vector instead of replacing it.
StoreExtend(r) ==
    IF r.tag = "Panic"
      THEN /\ pc' = "crashed"
           /\ event' = "recompute_panic"
           /\ UNCHANGED predictions
    ELSE IF r.tag = "Ok"
      THEN /\ predictions' = predictions \o r.val
           /\ event' = "recompute_ok"
           /\ UNCHANGED pc
    ELSE /\ predictions' = <<>>
         /\ event' = "recompute_err"
         /\ UNCHANGED pc

\* The steps of update after the call of run_arima_model returned r: a panic
\* unwinds out of update, unwrap_or_else makes an Err an empty vector, and
\* the vector replaces the stored predictions.
Store(r) ==
    IF r.tag = "Panic"
      THEN /\ pc' = "crashed"
           /\ event' = "recompute_panic"
           /\ UNCHANGED predictions
    ELSE IF r.tag = "Ok"
      THEN /\ predictions' = r.val
           /\ event' = "recompute_ok"
           /\ UNCHANGED pc
    ELSE /\ predictions' = <<>>
         /\ event' = "recompute_err"
         /\ UNCHANGED pc

\* The click handler taking the series out of the mutex instead of cloning.
RecomputeTake(fault) ==
    /\ pc = "running"
    /\ lastFit' = << [values |-> values, p |-> p, d |-> d, q |-> q] >>
    /\ Store(run_arima_model(values, p, d, q, fault))
    /\ values' = <<>>
    /\ UNCHANGED << world, fetches, historical, forecast, p, d, q >>

Recompute(fault) ==
    /\ pc = "running"
    /\ lastFit' = << [values |-> values, p |-> p, d |-> d, q |-> q] >>
    /\ Store(run_arima_model(values, p, d, q, fault))
    /\ UNCHANGED << world, fetches, historical, forecast, values, p, d, q >>

\* update, a frame without input: the stored predictions are listed again.
RenderTick ==
    /\ pc = "running"
    /\ event' = "tick"
    /\ UNCHANGED << pc, world, fetches, historical, forecast, values,
                    predictions, p, d, q, lastFit >>

Next ==
    \/ Main
    \/ \E v \in SliderInputs : SliderP(v)
    \/ \E v \in SliderInputs : SliderD(v)
    \/ \E v \in SliderInputs : SliderQ(v)
    \/ \E fault \in FitFaults : Recompute(fault)
    \/ RenderTick

Spec == Init /\ [][Next]_vars

\* ------------------------------------------------------------- properties
Constructed == pc \in {"running", "exited", "crashed"}

RECURSIVE Reverse(_)
Reverse(sq) == IF sq = <<>> THEN <<>> ELSE Append(Reverse(Tail(sq)), Head(sq))

Count(sq, x) == Cardinality({i \in 1..Len(sq) : sq[i] = x})

AllDigits(s, i, j) == \A k \in i..j : IsDigit(s[k])

\* The float grammar of Rust's f64::from_str, stated by cut points:
\* Sign? ( 'inf' | 'infinity' | 'nan' | Number ), Number a digit string with
\* at most one '.' and at least one digit, then an optional exponent
\* ('e' | 'E') Sign? Digit+.
ValidNumber(s) ==
    \E a \in 0..1 :
      /\ a <= Len(s)
      /\ a = 1 => s[1] \in {"+", "-"}
      /\ \/ LowerText(SubSeq(s, a + 1, Len(s)))
              \in { <<"i", "n", "f">>, <<"n", "a", "n">>,
                    <<"i", "n", "f", "i", "n", "i", "t", "y">> }
         \/ \E m \in a..Len(s) :
              /\ m > a
              /\ \E dot \in a..m :
                   /\ dot > a => s[dot] = "."
                   /\ \A k \in (a + 1)..m : k # dot => IsDigit(s[k])
                   /\ \E k \in (a + 1)..m : k # dot
              /\ \/ m = Len(s)
                 \/ /\ m < Len(s)
                    /\ s[m + 1] \in {"e", "E"}
                    /\ \E g \in (m + 1)..(m + 2) :
                         /\ g < Len(s)
                         /\ g = m + 2 => s[g] \in {"+", "-"}
                         /\ AllDigits(s, g + 1, Len(s))

\* The f64 each numeric text of the feed denotes, written out by hand.
KnownValue(t) ==
    CASE t = <<"2", ".", "5">> ->
           [class |-> "finite", neg |-> FALSE, mant |-> 25, exp |-> -1]
      [] t = <<"-", "1", "e", "1">> ->
           [class |-> "finite", neg |-> TRUE, mant |-> 1, exp |-> 1]
      [] t = <<"N", "a", "N">> -> [class |-> "nan"]

NumericTexts == { <<"2", ".", "5">>, <<"-", "1", "e", "1">>, <<"N", "a", "N">> }

AllNumeric(body) == \A i \in 1..Len(body) : body[i].value \in NumericTexts

\* The values of the records in the order the provider sent them.
ProviderValues == [i \in 1..Len(world.body) |-> KnownValue(world.body[i].value)]

StartupOk ==
    /\ world.API_TOKEN
    /\ world.URL_BASE
    /\ world.transport
    /\ \A i \in 1..Len(world.body) : ValidNumber(world.body[i].value)

CurrentFit == << [values |-> historical, p |-> p, d |-> d, q |-> q] >>

\* C1: a recompute whose fit fails leaves the stored predictions, which the
\* display reads, as they were before the click.
C1_FailedFitKeepsForecast ==
    [][event' = "recompute_err" => predictions' = predictions]_vars

\* C2: the stored predictions a reader sees are always either empty or the
\* whole horizon-long output of the one latest recompute, never a mixture of
\* the outputs of two recomputes.
C2_ForecastIsWhole ==
    \/ predictions = <<>>
    \/ /\ Len(predictions) = 1
       /\ predictions[1].order \in
            (SliderMin..SliderMax) \X (SliderMin..SliderMax) \X (SliderMin..SliderMax)
       /\ predictions = ArimaForecast(values, predictions[1].order[1],
                            predictions[1].order[2], predictions[1].order[3])
       /\ VecLen(predictions) = Horizon

C2_Witness ==
    /\ event = "recompute_ok"
    /\ <<p, d, q>> = <<10, 0, 1>>
    /\ Len(values) = 2
    /\ predictions = ArimaForecast(values, 10, 0, 1)

\* C3: with a feed sorted newest first, the historical series and the series
\* handed to the fit are oldest first, the reverse of the provider order.
C3_OldestFirst ==
    Constructed =>
        /\ historical = Reverse(ProviderValues)
        /\ lastFit # <<>> => lastFit[1].values = Reverse(ProviderValues)

\* C4: when every value field is numeric, the historical series has one
\* element per record of the feed, each the f64 its text denotes: nothing
\* dropped, duplicated or replaced.
C4_OneValuePerRecord ==
    (pc # "boot" /\ StartupOk /\ AllNumeric(world.body)) =>
        /\ Constructed
        /\ Len(historical) = Len(world.body)
        /\ \A i \in 1..Len(world.body) :
             Count(historical, ProviderValues[i]) = Count(ProviderValues, ProviderValues[i])

C4_Witness ==
    /\ Constructed
    /\ Len(historical) = 2
    /\ historical[1] # historical[2]
    /\ historical[2] = KnownValue(<<"-", "1", "e", "1">>)

\* C5: one record whose value field is no valid number makes acquisition fail
\* as a whole with a decode error: no series is produced, the record is
\* neither dropped nor given a default value.
C5_BadValueFailsDecoding ==
    ( /\ pc # "boot"
      /\ fetches = 1
      /\ world.transport
      /\ \E i \in 1..Len(world.body) : ~ValidNumber(world.body[i].value) ) =>
        /\ pc = "aborted"
        /\ historical = <<>>
        /\ values = <<>>
        /\ get_historical_data(world).tag = "Err"
        /\ get_historical_data(world).err[1] = "decode"

C5_Witness ==
    /\ pc = "aborted"
    /\ fetches = 1
    /\ world.transport
    /\ Len(world.body) = 2
    /\ ValidNumber(world.body[1].value)
    /\ ~ValidNumber(world.body[2].value)

\* C6: after a successful startup the historical series is non-empty, and
\* every fit a recompute starts is given a non-empty series.
C6_SeriesNonEmpty ==
    Constructed =>
        /\ historical # <<>>
        /\ lastFit # <<>> => lastFit[1].values # <<>>

\* C7: no failure of a step of a recompute ends the interactive surface: a
\* running session is still running after every step.
C7_RecomputeNeverCrashes ==
    [][pc = "running" => pc' = "running"]_vars

\* C8: the surface runs, and a frame is handled, only after the one fetch and
\* decoding succeeded; a missing variable, a failed request or a failed
\* decoding aborts the process for good; at most one request is ever sent.
C8_StartupGate ==
    /\ [](/\ fetches <= 1
          /\ (pc \in {"running", "crashed"} \/ event \notin {"none", "main"}) =>
               (StartupOk /\ fetches = 1 /\ world.display)
          /\ (pc # "boot" /\ ~StartupOk) =>
               (pc = "aborted" /\ event = "main" /\ lastFit = <<>>))
    /\ [][pc = "aborted" => pc' = "aborted"]_vars

C8_Witness ==
    /\ pc = "running"
    /\ event = "recompute_ok"
    /\ fetches = 1
    /\ Len(historical) = 2

\* C9: once the session is constructed no slider change, recompute or render
\* tick changes the historical series.
C9_HistoricalFrozen ==
    [][Constructed => (historical' = historical /\ values' = values)]_vars

C9_Witness ==
    /\ event = "recompute_err"
    /\ p = 0
    /\ historical # <<>>
    /\ values = historical

\* C10: p, d and q stay within 0..10 and start at 1; slider frames and render
\* ticks leave the stored predictions alone; the predictions change only in
\* a recompute, whose fit is given the p, d, q of that moment and the
\* startup series.
C10_OnlyRecomputeChangesForecast ==
    /\ [](pc = "running" =>
            (p \in SliderMin..SliderMax /\ d \in SliderMin..SliderMax
             /\ q \in SliderMin..SliderMax))
    /\ [][ /\ pc = "boot" /\ pc' = "running" => <<p', d', q'>> = <<1, 1, 1>>
           /\ event' \in {"slider", "tick"} => predictions' = predictions
           /\ event' \in {"recompute_ok", "recompute_err", "recompute_panic"} =>
                (lastFit' = CurrentFit /\ <<p', d', q'>> = <<p, d, q>>)
           /\ predictions' # predictions =>
                /\ event' \in {"recompute_ok", "recompute_err"}
                /\ predictions' \in {<<>>, ArimaForecast(historical, p, d, q)}
         ]_vars

C10_Witness ==
    /\ event = "slider"
    /\ predictions # <<>>
    /\ lastFit[1].p # p
    /\ predictions = ArimaForecast(historical, lastFit[1].p, d, q)

====
